---- MODULE Spec2Model ----
(***************************************************************************)
(* ScholarStream server (src/index.js): the Express route handlers over    *)
(* the users, scholarships, applications and reviews collections.  Every   *)
(* await of a handler is one atomic persistence call; a handler with two   *)
(* awaits is two steps, between which other requests may run.              *)
(***************************************************************************)
EXTENDS Integers, FiniteSets, Sequences, Bags, TLC

VARIABLES scholarships, users, applications, reviews, nextId, req, out

vars == <<scholarships, users, applications, reviews, nextId, req, out>>

(* ------------------------------ bounds -------------------------------- *)
MaxApps == 2
MaxReviews == 2
MaxUsers == 4
MaxInFlight == 2

(* ------------------------------ inputs -------------------------------- *)
Emails == {"ann", "bob", "mod", "root"}
Students == {"ann", "bob"}
NoToken == "none"
BadToken == "bad"
Scholarships == {"s1", "s2"}
NoFeedback == "undefined"
NoRating == "undefined"

(* ------------------------------ documents ----------------------------- *)
\* req.body of POST /applications: the fields of it the handler reads or
\* overrides ("undefined" for a field the client left out) and the two amounts
\* the analytics add up (0 for an amount the client left out: `|| 0`)
NoBody ==
    [scholarshipId |-> "undefined", userEmail |-> "undefined",
     applicationStatus |-> "undefined", paymentStatus |-> "undefined",
     feedback |-> "undefined", applicationFees |-> 0, serviceCharge |-> 0]

\* the body the client of the site sends: the scholarship and nothing the server sets
PlainBody(sch) == [NoBody EXCEPT !.scholarshipId = sch]

\* a body that names an owner, a status, a payment status and a feedback itself
ForgedBody(sch) ==
    [scholarshipId |-> sch, userEmail |-> "bob", applicationStatus |-> "approved",
     paymentStatus |-> "paid", feedback |-> "accepted", applicationFees |-> 5,
     serviceCharge |-> 1]

\* req.query of GET /scholarships ("" for a parameter the client left out of
\* search, category and sort; page and limit as the strings of the query)
NoQuery == [search |-> "", category |-> "", sort |-> "", page |-> "1", limit |-> "6"]

\* the scholarships the deployment starts with, in insertion order
Catalogue ==
    << [id |-> 1, scholarshipName |-> "Merit", universityName |-> "MIT",
        degree |-> "Masters", scholarshipCategory |-> "Full fund", applicationFees |-> 10],
       [id |-> 2, scholarshipName |-> "Grant", universityName |-> "Oxford",
        degree |-> "Bachelor", scholarshipCategory |-> "Partial", applicationFees |-> 20] >>

\* a request between two awaits: its route, the await it waits for, and its locals
\* (email: the token's; id: the :id parameter; key: the scholarshipId or email the
\* body names; val: the status or role of the body; fb: its feedback)
Request(op, pc, email, id, key, val, fb) ==
    [op |-> op, pc |-> pc, email |-> email, id |-> id, key |-> key, val |-> val, fb |-> fb,
     body |-> NoBody, query |-> NoQuery, rows |-> <<>>]

\* the event loop takes a new request (bounded number of requests between awaits)
Accepting == BagCardinality(req) < MaxInFlight

Await(r) == req (+) SetToBag({r})
Resume(r) == req (-) SetToBag({r})

NoOut ==
    [op |-> "-", email |-> "-", id |-> 0, key |-> "-", status |-> 0, docs |-> {},
     query |-> NoQuery, total |-> 0, counts |-> <<>>]

\* res.status(status).send(docs): the response to the request op of the caller email
\* (op, email, id, key) name the request, (status, docs) are what res sends
Respond(op, email, id, key, status, docs) ==
    [op |-> op, email |-> email, id |-> id, key |-> key, status |-> status, docs |-> docs,
     query |-> NoQuery, total |-> 0, counts |-> <<>>]

\* the users collection the deployment starts from: registration only ever
\* creates students, so the first admin and moderator are put there by hand
SeedUsers ==
    { [id |-> 1, email |-> "root", role |-> "admin"],
      [id |-> 2, email |-> "mod", role |-> "moderator"] }

\* what findOneAndUpdate resolves to depends on the installed mongodb driver
\* (the repository pins none): up to 5.x a ModifyResult { value }, from 6.0 the
\* document itself (or null)
Drivers == {"ModifyResult", "Document"}

(* ------------------------------ middleware ---------------------------- *)
\* verifyJWT: 401 without a header, 403 on a token that does not verify, 0 = next()
VerifyJWT(token) ==
    IF token = NoToken THEN 401
    ELSE IF token = BadToken THEN 403
    ELSE 0

\* usersCollection.findOne({ email }): the documents findOne may return
FindUsersByEmail(email) == {u \in users : u.email = email}

\* user?.role of the looked-up user ("undefined" when findOne returned null)
ResolvedRoles(email) ==
    IF FindUsersByEmail(email) = {} THEN {"undefined"}
    ELSE {u.role : u \in FindUsersByEmail(email)}

\* verifyAdmin: next() only when user?.role === "admin"
VerifyAdminPass(role) == role = "admin"

\* mutant: an admin passes the moderator gate too
VerifyModeratorPass_Hierarchy(role) == role \in {"moderator", "admin"}

\* verifyModerator: next() only when user?.role === "moderator"
VerifyModeratorPass(role) == role = "moderator"

(* ------------------------------ queries ------------------------------- *)
\* applicationsCollection.findOne({ _id })
FindApplicationById(id) == {a \in applications : a.id = id}

\* mutant: the duplicate check only sees applications still pending
FindExistingApplication_PendingOnly(sch, email) ==
    {a \in applications : a.scholarshipId = sch /\ a.userEmail = email
                            /\ a.applicationStatus = "pending"}

\* applicationsCollection.findOne({ scholarshipId, userEmail: req.decoded.email })
FindExistingApplication(sch, email) ==
    {a \in applications : a.scholarshipId = sch /\ a.userEmail = email}

\* mutant: the body is spread after the server's fields, so what it names wins
NewApplicationOf_BodyWins(id, body, email) ==
    LET forced == [scholarshipId |-> "undefined", userEmail |-> email,
                   applicationStatus |-> "pending", paymentStatus |-> "unpaid",
                   feedback |-> ""]
        doc == [f \in DOMAIN body |->
                   IF f \in DOMAIN forced /\ body[f] = "undefined" THEN forced[f] ELSE body[f]]
    IN [id |-> id, scholarshipId |-> doc.scholarshipId, userEmail |-> doc.userEmail,
        applicationStatus |-> doc.applicationStatus, paymentStatus |-> doc.paymentStatus,
        feedback |-> doc.feedback, applicationFees |-> doc.applicationFees,
        serviceCharge |-> doc.serviceCharge]

\* newApplication = { ...application, userEmail: req.decoded.email,
\* applicationStatus: "pending", paymentStatus: "unpaid", feedback: "" }: the
\* body's fields, then the server's over them; insertOne gives it the _id
NewApplicationOf(id, body, email) ==
    LET doc == [body EXCEPT !.userEmail = email, !.applicationStatus = "pending",
                            !.paymentStatus = "unpaid", !.feedback = ""]
    IN [id |-> id, scholarshipId |-> doc.scholarshipId, userEmail |-> doc.userEmail,
        applicationStatus |-> doc.applicationStatus, paymentStatus |-> doc.paymentStatus,
        feedback |-> doc.feedback, applicationFees |-> doc.applicationFees,
        serviceCharge |-> doc.serviceCharge]

\* the new document of POST /applications for a body that names the scholarship only
NewApplication(id, sch, email) == NewApplicationOf(id, PlainBody(sch), email)

\* feedback || ""
FeedbackOrEmpty(fb) == IF fb = NoFeedback THEN "" ELSE fb

InFlight(op) ==
    BagCardinality([r \in {x \in BagToSet(req) : x.op = op} |-> req[r]])

(* ------------------------------ initial state ------------------------- *)
Init ==
    /\ users = SeedUsers
    /\ applications = {}
    /\ reviews = {}
    /\ nextId = [user |-> 3, app |-> 1, review |-> 1]
    /\ req = EmptyBag
    /\ out = NoOut
    /\ scholarships = Catalogue

(* ------------------------------ POST /applications -------------------- *)
PostApplicationFind(token, body) ==
    /\ Accepting
    /\ VerifyJWT(token) = 0
    /\ IF FindExistingApplication(body.scholarshipId, token) # {}
       THEN /\ out' = Respond("POST /applications", token, 0, body.scholarshipId, 400, {})
            /\ UNCHANGED req
       ELSE /\ nextId.app + InFlight("POST /applications") <= MaxApps
            /\ req' = Await([Request("POST /applications", "insertOne", token, 0,
                                     body.scholarshipId, "-", "-") EXCEPT !.body = body])
            /\ out' = NoOut
    /\ UNCHANGED <<scholarships, users, applications, reviews, nextId>>

PostApplicationInsert(r) ==
    /\ BagIn(r, req)
    /\ r.op = "POST /applications"
    /\ r.pc = "insertOne"
    /\ applications' = applications \cup {NewApplicationOf(nextId.app, r.body, r.email)}
    /\ nextId' = [nextId EXCEPT !.app = @ + 1]
    /\ out' = Respond("POST /applications", r.email, nextId.app, r.key, 200, {})
    /\ req' = Resume(r)
    /\ UNCHANGED <<scholarships, users, reviews>>

(* ------------------------------ rejected tokens ----------------------- *)
\* verifyJWT answers itself: 401 "Unauthorized access" or 403 "Forbidden access"
VerifyJWTReject(token, op) ==
    /\ Accepting
    /\ VerifyJWT(token) # 0
    /\ out' = Respond(op, token, 0, "-", VerifyJWT(token), {})
    /\ UNCHANGED <<scholarships, users, applications, reviews, nextId, req>>

(* ------------------------------ DELETE /applications/:id -------------- *)
\* the checks between findOne and deleteOne: 404, 403, 400, or 0 = go on
DeleteApplicationCheck(found, email) ==
    IF found = {} THEN 404
    ELSE IF \E a \in found : a.userEmail # email THEN 403
    ELSE IF \E a \in found : a.applicationStatus # "pending" THEN 400
    ELSE 0

\* applicationsCollection.deleteOne({ _id }): the documents it removes
DeleteOneApplication(id) == {a \in applications : a.id = id}

DeleteApplicationFind(token, id) ==
    /\ Accepting
    /\ VerifyJWT(token) = 0
    /\ LET code == DeleteApplicationCheck(FindApplicationById(id), token)
       IN IF code # 0
          THEN /\ out' = Respond("DELETE /applications/:id", token, id, "-", code, {})
               /\ UNCHANGED req
          ELSE /\ req' = Await(Request("DELETE /applications/:id", "deleteOne", token, id, "-", "-", "-"))
               /\ out' = NoOut
    /\ UNCHANGED <<scholarships, users, applications, reviews, nextId>>

DeleteApplicationDelete(r) ==
    /\ BagIn(r, req)
    /\ r.op = "DELETE /applications/:id"
    /\ r.pc = "deleteOne"
    /\ applications' = applications \ DeleteOneApplication(r.id)
    /\ out' = Respond("DELETE /applications/:id", r.email, r.id, "-", 200,
                      DeleteOneApplication(r.id))
    /\ req' = Resume(r)
    /\ UNCHANGED <<scholarships, users, reviews, nextId>>

(* ---- PATCH /applications/:id/status, PATCH /moderator/applications/:id *)
StatusRoutes == {"PATCH /applications/:id/status", "PATCH /moderator/applications/:id"}

\* mutant: approving an application marks it paid
UpdateOneStatus_MarksPaid(id, status, fb) ==
    {IF a.id = id
     THEN [a EXCEPT !.applicationStatus = status, !.feedback = FeedbackOrEmpty(fb),
                    !.paymentStatus = IF status = "approved" THEN "paid" ELSE @]
     ELSE a : a \in applications}

\* mutant: the update only matches an application that is still pending
UpdateOneStatus_PendingOnly(id, status, fb) ==
    {IF a.id = id /\ a.applicationStatus = "pending"
     THEN [a EXCEPT !.applicationStatus = status, !.feedback = FeedbackOrEmpty(fb)]
     ELSE a : a \in applications}

\* updateOne({ _id }, { $set: { applicationStatus: status, feedback: feedback || "" } })
UpdateOneStatus(id, status, fb) ==
    {IF a.id = id
     THEN [a EXCEPT !.applicationStatus = status, !.feedback = FeedbackOrEmpty(fb)]
     ELSE a : a \in applications}

\* verifyModerator, in front of every moderator route: 403 or next(), after
\* which the handler waits for its persistence call
VerifyModeratorGate(token, route, id, status, fb) ==
    /\ Accepting
    /\ VerifyJWT(token) = 0
    /\ \E role \in ResolvedRoles(token) :
          IF VerifyModeratorPass(role)
          THEN /\ req' = Await(Request(route, "handler", token, id, "-", status, fb))
               /\ out' = NoOut
          ELSE /\ out' = Respond(route, token, 0, "-", 403, {})
               /\ UNCHANGED req
    /\ UNCHANGED <<scholarships, users, applications, reviews, nextId>>

PatchStatusUpdate(r) ==
    /\ BagIn(r, req)
    /\ r.op \in StatusRoutes
    /\ r.pc = "handler"
    /\ applications' = UpdateOneStatus(r.id, r.val, r.fb)
    /\ out' = Respond(r.op, r.email, r.id, "-", 200,
                      FindApplicationById(r.id))
    /\ req' = Resume(r)
    /\ UNCHANGED <<scholarships, users, reviews, nextId>>

(* ------------------------------ POST /reviews ------------------------- *)
\* mutant: the gate only refuses rejected applications
PostReviewCheck_NotRejected(found) ==
    IF found = {} THEN 404
    ELSE IF \E a \in found : a.applicationStatus = "rejected" THEN 403
    ELSE 0

\* the gate between findOne and insertOne: 404, 403, or 0 = go on
PostReviewCheck(found) ==
    IF found = {} THEN 404
    ELSE IF \E a \in found : a.applicationStatus # "approved" THEN 403
    ELSE 0

\* the new document of POST /reviews: scholarshipId is application._id
\* rating is the field PATCH /reviews/:id sets; POST /reviews does not write it
NewReview(id, appId, email) ==
    [id |-> id, scholarshipId |-> appId, userEmail |-> email, rating |-> NoRating]

PostReviewFind(token, appId) ==
    /\ Accepting
    /\ VerifyJWT(token) = 0
    /\ LET code == PostReviewCheck(FindApplicationById(appId))
       IN IF code # 0
          THEN /\ out' = Respond("POST /reviews", token, appId, "-", code, {})
               /\ UNCHANGED req
          ELSE /\ nextId.review + InFlight("POST /reviews") <= MaxReviews
               /\ req' = Await(Request("POST /reviews", "insertOne", token, appId, "-", "-", "-"))
               /\ out' = NoOut
    /\ UNCHANGED <<scholarships, users, applications, reviews, nextId>>

PostReviewInsert(r) ==
    /\ BagIn(r, req)
    /\ r.op = "POST /reviews"
    /\ r.pc = "insertOne"
    /\ reviews' = reviews \cup {NewReview(nextId.review, r.id, r.email)}
    /\ nextId' = [nextId EXCEPT !.review = @ + 1]
    /\ out' = Respond("POST /reviews", r.email, r.id, "-", 200, {})
    /\ req' = Resume(r)
    /\ UNCHANGED <<scholarships, users, applications>>

(* ------------------------------ reads of applications ----------------- *)
\* applicationsCollection.find({ userEmail: email })
FindApplicationsByEmail(email) == {a \in applications : a.userEmail = email}

\* GET /applications?email=: 403 unless the query email is the token's
GetApplications(token, email) ==
    /\ Accepting
    /\ VerifyJWT(token) = 0
    /\ out' = IF token # email
              THEN Respond("GET /applications", token, 0, "-", 403, {})
              ELSE Respond("GET /applications", token, 0, "-", 200,
                           FindApplicationsByEmail(email))
    /\ UNCHANGED <<scholarships, users, applications, reviews, nextId, req>>

\* GET /applications/:id has no verifyJWT in front: any caller, with or without token
GetApplicationById(token, id) ==
    /\ Accepting
    /\ out' = Respond("GET /applications/:id", token, id, "-", 200, FindApplicationById(id))
    /\ UNCHANGED <<scholarships, users, applications, reviews, nextId, req>>

\* GET /moderator/applications, after verifyModerator: find()
ModeratorGetApplications(r) ==
    /\ BagIn(r, req)
    /\ r.op = "GET /moderator/applications"
    /\ r.pc = "handler"
    /\ out' = Respond(r.op, r.email, 0, "-", 200, applications)
    /\ req' = Resume(r)
    /\ UNCHANGED <<scholarships, users, applications, reviews, nextId>>

(* ------------------------------ reviews ------------------------------- *)
\* reviewsCollection.find({ userEmail: email })
FindReviewsByEmail(email) == {v \in reviews : v.userEmail = email}

\* GET /reviews?email=: 403 unless the query email is the token's
GetReviews(token, email) ==
    /\ Accepting
    /\ VerifyJWT(token) = 0
    /\ out' = IF token # email
              THEN Respond("GET /reviews", token, 0, "-", 403, {})
              ELSE Respond("GET /reviews", token, 0, "-", 200, FindReviewsByEmail(email))
    /\ UNCHANGED <<scholarships, users, applications, reviews, nextId, req>>

\* mutant: the review filter matches on the id alone
MatchOwnReview_IdOnly(id, email) == {v \in reviews : v.id = id}

\* the filter { _id, userEmail: req.decoded.email } of the student's review routes
MatchOwnReview(id, email) == {v \in reviews : v.id = id /\ v.userEmail = email}

\* what the handler answers after findOneAndUpdate, by `if (!x.value)`: with a
\* ModifyResult, 404 on no match; with the bare document, x.value is undefined
\* on a match (404) and x is null otherwise (TypeError, caught where there is a catch)
FindOneAndUpdateStatus(driver, matched) ==
    IF driver = "ModifyResult"
    THEN IF matched = {} THEN 404 ELSE 200
    ELSE IF matched = {} THEN 500 ELSE 404

\* PATCH /reviews/:id: findOneAndUpdate(own review, { $set: { rating, comment } })
PatchReview(token, id, rating) ==
    /\ Accepting
    /\ VerifyJWT(token) = 0
    /\ reviews' = {IF v \in MatchOwnReview(id, token) THEN [v EXCEPT !.rating = rating] ELSE v :
                      v \in reviews}
    /\ \E driver \in Drivers :
          LET status == FindOneAndUpdateStatus(driver, MatchOwnReview(id, token))
          IN out' = Respond("PATCH /reviews/:id", token, id, "-", status,
                            IF status = 200
                            THEN {[v EXCEPT !.rating = rating] : v \in MatchOwnReview(id, token)}
                            ELSE {})
    /\ UNCHANGED <<scholarships, users, applications, nextId, req>>

\* DELETE /reviews/:id: deleteOne(own review), 404 when deletedCount is 0
DeleteReview(token, id) ==
    /\ Accepting
    /\ VerifyJWT(token) = 0
    /\ reviews' = reviews \ MatchOwnReview(id, token)
    /\ out' = Respond("DELETE /reviews/:id", token, id, "-",
                      IF MatchOwnReview(id, token) = {} THEN 404 ELSE 200, {})
    /\ UNCHANGED <<scholarships, users, applications, nextId, req>>

\* GET /moderator/reviews, after verifyModerator: find({})
ModeratorGetReviews(r) ==
    /\ BagIn(r, req)
    /\ r.op = "GET /moderator/reviews"
    /\ r.pc = "handler"
    /\ out' = Respond(r.op, r.email, 0, "-", 200, reviews)
    /\ req' = Resume(r)
    /\ UNCHANGED <<scholarships, users, applications, reviews, nextId>>

\* DELETE /moderator/reviews/:id, after verifyModerator: deleteOne({ _id })
ModeratorDeleteReview(r) ==
    /\ BagIn(r, req)
    /\ r.op = "DELETE /moderator/reviews/:id"
    /\ r.pc = "handler"
    /\ reviews' = {v \in reviews : v.id # r.id}
    /\ out' = Respond(r.op, r.email, r.id, "-",
                      IF \E v \in reviews : v.id = r.id THEN 200 ELSE 404, {})
    /\ req' = Resume(r)
    /\ UNCHANGED <<scholarships, users, applications, nextId>>

(* ------------------------------ users --------------------------------- *)
\* mutant: the body's role survives the spread
NewUser_BodyRole(id, email, bodyRole) == [id |-> id, email |-> email, role |-> bodyRole]

\* the new document of POST /users: { ...user, role: "student" }
NewUser(id, email, bodyRole) == [id |-> id, email |-> email, role |-> "student"]

\* POST /users has no verifyJWT in front; the body names the email and, if the
\* client likes, a role
PostUserFind(email, bodyRole) ==
    /\ Accepting
    /\ IF FindUsersByEmail(email) # {}
       THEN /\ out' = Respond("POST /users", NoToken, 0, email, 200, {})
            /\ UNCHANGED req
       ELSE /\ nextId.user + InFlight("POST /users") <= MaxUsers
            /\ req' = Await(Request("POST /users", "insertOne", NoToken, 0, email, bodyRole, "-"))
            /\ out' = NoOut
    /\ UNCHANGED <<scholarships, users, applications, reviews, nextId>>

PostUserInsert(r) ==
    /\ BagIn(r, req)
    /\ r.op = "POST /users"
    /\ r.pc = "insertOne"
    /\ users' = users \cup {NewUser(nextId.user, r.key, r.val)}
    /\ nextId' = [nextId EXCEPT !.user = @ + 1]
    /\ out' = Respond("POST /users", NoToken, nextId.user, r.key, 200, {})
    /\ req' = Resume(r)
    /\ UNCHANGED <<scholarships, applications, reviews>>

\* role.toLowerCase() on the role values the model sends
ToLowerCase(role) ==
    CASE role = "Moderator" -> "moderator"
      [] role = "ADMIN" -> "admin"
      [] OTHER -> role

\* a body without a role: role.toLowerCase() throws a TypeError
NoRole == "undefined"

\* mutant: every role passes the validation
ValidRole_AnyString(role) == TRUE

\* ["student", "moderator", "admin"].includes(role.toLowerCase())
ValidRole(role) == ToLowerCase(role) \in {"student", "moderator", "admin"}

\* verifyAdmin, in front of every admin route: 403 or next(); the handler then
\* runs to its first await (PATCH .../role validates the role before it: 400 on
\* a role outside the three, 500 from its catch when the body has no role)
VerifyAdminGate(token, route, id, role) ==
    /\ Accepting
    /\ VerifyJWT(token) = 0
    /\ \E resolved \in ResolvedRoles(token) :
          IF ~VerifyAdminPass(resolved)
          THEN /\ out' = Respond(route, token, 0, "-", 403, {})
               /\ UNCHANGED req
          ELSE IF route = "PATCH /dashboard/users/:id/role" /\ role = NoRole
          THEN /\ out' = Respond(route, token, id, role, 500, {})
               /\ UNCHANGED req
          ELSE IF route = "PATCH /dashboard/users/:id/role" /\ ~ValidRole(role)
          THEN /\ out' = Respond(route, token, id, role, 400, {})
               /\ UNCHANGED req
          ELSE /\ req' = Await(Request(route, "handler", token, id, "-", role, "-"))
               /\ out' = NoOut
    /\ UNCHANGED <<scholarships, users, applications, reviews, nextId>>

\* PATCH /dashboard/users/:id/role: findOneAndUpdate({ _id }, { $set: { role } })
PatchUserRole(r) ==
    /\ BagIn(r, req)
    /\ r.op = "PATCH /dashboard/users/:id/role"
    /\ r.pc = "handler"
    /\ users' = {IF u.id = r.id THEN [u EXCEPT !.role = ToLowerCase(r.val)] ELSE u : u \in users}
    /\ \E driver \in Drivers :
          out' = Respond(r.op, r.email, r.id, "-",
                         FindOneAndUpdateStatus(driver, {u \in users : u.id = r.id}), {})
    /\ req' = Resume(r)
    /\ UNCHANGED <<scholarships, applications, reviews, nextId>>

\* DELETE /dashboard/users/:id: deleteOne({ _id }), always answered with success
DeleteUser(r) ==
    /\ BagIn(r, req)
    /\ r.op = "DELETE /dashboard/users/:id"
    /\ r.pc = "handler"
    /\ users' = {u \in users : u.id # r.id}
    /\ out' = Respond(r.op, r.email, r.id, "-", 200, {})
    /\ req' = Resume(r)
    /\ UNCHANGED <<scholarships, applications, reviews, nextId>>

(* ------------------------------ specification ------------------------- *)
AppIds == 1 .. MaxApps
LifeStatuses == {"approved", "rejected"}
StatusCallers == {"mod", "ann"}

Next ==
    \/ \E e \in Students, sch \in Scholarships : PostApplicationFind(e, PlainBody(sch))
    \/ \E r \in BagToSet(req) : PostApplicationInsert(r)
    \/ \E e \in Students, id \in AppIds : DeleteApplicationFind(e, id)
    \/ \E r \in BagToSet(req) : DeleteApplicationDelete(r)
    \/ \E e \in StatusCallers, id \in AppIds, st \in LifeStatuses :
          VerifyModeratorGate(e, "PATCH /applications/:id/status", id, st, NoFeedback)
    \/ \E r \in BagToSet(req) : PatchStatusUpdate(r)
    \/ \E e \in Students, id \in AppIds : PostReviewFind(e, id)
    \/ \E r \in BagToSet(req) : PostReviewInsert(r)
    \/ \E t \in {NoToken, BadToken} : VerifyJWTReject(t, "POST /applications")

Spec == Init /\ [][Next]_vars

\* requests served one at a time: none arrives while another is between awaits
NextSeq == Next /\ BagCardinality(req') <= 1

SpecSeq == Init /\ [][NextSeq]_vars

(* ------------------------------ submitting, one request at a time ----- *)
NextSubmit ==
    \/ \E e \in Students, sch \in Scholarships : PostApplicationFind(e, PlainBody(sch))
    \/ \E r \in BagToSet(req) : PostApplicationInsert(r)
    \/ \E id \in AppIds :
          VerifyModeratorGate("mod", "PATCH /applications/:id/status", id, "approved", NoFeedback)
    \/ \E r \in BagToSet(req) : PatchStatusUpdate(r)
    \/ \E e \in Students, id \in AppIds : DeleteApplicationFind(e, id)
    \/ \E r \in BagToSet(req) : DeleteApplicationDelete(r)

NextSubmitSeq == NextSubmit /\ BagCardinality(req') <= 1

SpecSubmitSeq == Init /\ [][NextSubmitSeq]_vars

(* ------------------------------ reviewing existing applications ------- *)
\* a store holding a pending application of ann and an approved one of bob
InitReview ==
    /\ users = SeedUsers
    /\ applications =
          { NewApplication(1, "s1", "ann"),
            [NewApplication(2, "s1", "bob") EXCEPT !.applicationStatus = "approved"] }
    /\ reviews = {}
    /\ nextId = [user |-> 3, app |-> 3, review |-> 1]
    /\ req = EmptyBag
    /\ out = NoOut
    /\ scholarships = Catalogue

NextReview ==
    \/ \E e \in Students, id \in AppIds : PostReviewFind(e, id)
    \/ \E r \in BagToSet(req) : PostReviewInsert(r)
    \/ \E id \in AppIds, st \in LifeStatuses :
          VerifyModeratorGate("mod", "PATCH /applications/:id/status", id, st, NoFeedback)
    \/ \E r \in BagToSet(req) : PatchStatusUpdate(r)
    \/ DeleteApplicationFind("ann", 1)
    \/ \E r \in BagToSet(req) : DeleteApplicationDelete(r)

SpecReview == InitReview /\ [][NextReview]_vars

(* ------------------------------ access to existing documents ---------- *)
\* a store holding two applications for s1 and two reviews of the approved one
InitAccess ==
    /\ users = SeedUsers
    /\ applications =
          { [NewApplication(1, "s1", "ann") EXCEPT !.applicationStatus = "approved"],
            NewApplication(2, "s1", "bob") }
    /\ reviews = {NewReview(1, 1, "ann"), NewReview(2, 1, "bob")}
    /\ nextId = [user |-> 3, app |-> 3, review |-> 3]
    /\ req = EmptyBag
    /\ out = NoOut
    /\ scholarships = Catalogue

\* the ids of the applications and of the reviews of this store
StoredIds == {1, 2}

\* the owners ann and bob and the moderator call the owner routes; the moderator
\* and a caller without a User record call the moderator routes
OwnerCallers == {"ann", "bob", "mod"}
ModeratorCallers == {"mod", "ann"}

NextAccess ==
    \/ \E e \in OwnerCallers, q \in Students : GetApplications(e, q)
    \/ \E t \in {NoToken, "ann"}, id \in StoredIds : GetApplicationById(t, id)
    \/ \E e \in OwnerCallers, id \in StoredIds : DeleteApplicationFind(e, id)
    \/ \E r \in BagToSet(req) : DeleteApplicationDelete(r)
    \/ \E e \in ModeratorCallers, id \in StoredIds :
          VerifyModeratorGate(e, "PATCH /moderator/applications/:id", id, "rejected", "no")
    \/ \E r \in BagToSet(req) : PatchStatusUpdate(r)
    \/ \E e \in ModeratorCallers :
          VerifyModeratorGate(e, "GET /moderator/applications", 0, "-", "-")
    \/ \E r \in BagToSet(req) : ModeratorGetApplications(r)
    \/ \E e \in OwnerCallers, q \in Students : GetReviews(e, q)
    \/ \E e \in OwnerCallers, id \in StoredIds : PatchReview(e, id, "5")
    \/ \E e \in OwnerCallers, id \in StoredIds : DeleteReview(e, id)
    \/ \E e \in ModeratorCallers :
          VerifyModeratorGate(e, "GET /moderator/reviews", 0, "-", "-")
    \/ \E r \in BagToSet(req) : ModeratorGetReviews(r)
    \/ \E e \in ModeratorCallers, id \in StoredIds :
          VerifyModeratorGate(e, "DELETE /moderator/reviews/:id", id, "-", "-")
    \/ \E r \in BagToSet(req) : ModeratorDeleteReview(r)

SpecAccess == InitAccess /\ [][NextAccess]_vars

(* ------------------------------ the user directory and the role gates - *)
InitUsers ==
    /\ users = SeedUsers
    /\ applications = {NewApplication(1, "s1", "ann")}
    /\ reviews = {}
    /\ nextId = [user |-> 3, app |-> 2, review |-> 1]
    /\ req = EmptyBag
    /\ out = NoOut
    /\ scholarships = Catalogue

\* the caller bob registers; root and the id of the first registered user (an id
\* nobody has before the registration and after the removal) are the targets of
\* the admin routes
Registrants == {"bob"}
UserTargets == {1, 3}
RoleInputs == {"student", "ADMIN", "owner"}
GateCallers == {"root", "mod", "bob"}

NextUsers ==
    \/ \E e \in Registrants : PostUserFind(e, "admin")
    \/ \E r \in BagToSet(req) : PostUserInsert(r)
    \/ \E e \in GateCallers, id \in UserTargets, role \in RoleInputs :
          VerifyAdminGate(e, "PATCH /dashboard/users/:id/role", id, role)
    \/ \E r \in BagToSet(req) : PatchUserRole(r)
    \/ \E e \in GateCallers, id \in UserTargets :
          VerifyAdminGate(e, "DELETE /dashboard/users/:id", id, "-")
    \/ \E r \in BagToSet(req) : DeleteUser(r)
    \/ \E e \in GateCallers :
          VerifyModeratorGate(e, "PATCH /applications/:id/status", 1, "approved", NoFeedback)
    \/ \E r \in BagToSet(req) : PatchStatusUpdate(r)

SpecUsers == InitUsers /\ [][NextUsers]_vars

(* ------------------------------ moderators setting statuses ----------- *)
\* a store holding a pending application of ann and an approved one of bob, the
\* second with the feedback a moderator left
InitStatus ==
    /\ users = SeedUsers
    /\ applications =
          { NewApplication(1, "s1", "ann"),
            [NewApplication(2, "s1", "bob") EXCEPT !.applicationStatus = "approved",
                                                    !.feedback = "welcome"] }
    /\ reviews = {}
    /\ nextId = [user |-> 3, app |-> 3, review |-> 1]
    /\ req = EmptyBag
    /\ out = NoOut
    /\ scholarships = Catalogue

\* the body's status: the route takes any string (no validation in front of $set)
StatusInputs == {"approved", "archived"}
ModeratorStatusInputs == {"pending", "rejected"}
\* the first application and an id that matches none
StatusTargets == {1, MaxApps + 1}

NextStatus ==
    \/ \E e \in StatusCallers, id \in StatusTargets, st \in StatusInputs :
          VerifyModeratorGate(e, "PATCH /applications/:id/status", id, st, NoFeedback)
    \/ \E id \in StatusTargets, st \in ModeratorStatusInputs :
          VerifyModeratorGate("mod", "PATCH /moderator/applications/:id", id, st, "fix it")
    \/ \E r \in BagToSet(req) : PatchStatusUpdate(r)

SpecStatus == InitStatus /\ [][NextStatus]_vars

(* ------------------------------ submitting with a body of one's own ---- *)
\* s1 is applied for with the body of the site, s2 with a body that names the
\* server's fields itself
SubmittedBodies == {PlainBody("s1"), ForgedBody("s2")}

NextForge ==
    \/ \E e \in Students, body \in SubmittedBodies : PostApplicationFind(e, body)
    \/ \E r \in BagToSet(req) : PostApplicationInsert(r)
    \/ \E e \in Students, id \in AppIds : DeleteApplicationFind(e, id)
    \/ \E r \in BagToSet(req) : DeleteApplicationDelete(r)

SpecForge == Init /\ [][NextForge]_vars

(* ------------------------------ changing roles ------------------------ *)
\* the user directory after bob registered
InitRoles ==
    /\ users = SeedUsers \cup {NewUser(3, "bob", NoRole)}
    /\ applications = {}
    /\ reviews = {}
    /\ nextId = [user |-> 4, app |-> 1, review |-> 1]
    /\ req = EmptyBag
    /\ out = NoOut
    /\ scholarships = Catalogue

\* req.body.role: valid roles in three spellings, a string that is no role, no role
RoleValues == {"student", "Moderator", "ADMIN", "owner", NoRole}

NextRoles ==
    \/ PostUserFind("ann", "ADMIN")
    \/ \E r \in BagToSet(req) : PostUserInsert(r)
    \/ \E id \in UserTargets, role \in RoleValues :
          VerifyAdminGate("root", "PATCH /dashboard/users/:id/role", id, role)
    \/ \E r \in BagToSet(req) : PatchUserRole(r)

SpecRoles == InitRoles /\ [][NextRoles]_vars

(* ------------------------------ failures inside handlers and gates ---- *)
\* an :id that is no 24-digit hex string: new ObjectId(id) throws a BSONError
MalformedId == -1

\* the routes whose handler wraps its persistence calls in try / catch and
\* answers 500 { message } from the catch
TryCatchRoutes ==
    {"GET /reviews", "POST /reviews", "PATCH /reviews/:id", "DELETE /reviews/:id",
     "POST /users", "PATCH /dashboard/users/:id/role", "DELETE /dashboard/users/:id",
     "GET /moderator/applications", "PATCH /moderator/applications/:id",
     "GET /moderator/reviews", "DELETE /moderator/reviews/:id"}

\* what becomes of a rejected promise of an async handler depends on the
\* installed express (the repository pins none): 4.x drops it, so the request
\* gets no response and the process an unhandledRejection; 5.x passes it to the
\* default error handler, which answers 500 with an HTML page
Frameworks == {"express4", "express5"}

Escaped(framework, op, email, id) ==
    IF framework = "express4"
    THEN Respond(op, email, id, "unhandledRejection", 0, {})
    ELSE Respond(op, email, id, "defaultErrorHandler", 500, {})

\* the outcomes of a throw inside the handler of op
Failure(op, email, id) ==
    IF op \in TryCatchRoutes
    THEN {Respond(op, email, id, "-", 500, {})}
    ELSE {Escaped(framework, op, email, id) : framework \in Frameworks}

\* GET /users/:email: findOne({ email }), no verifyJWT in front
GetUserByEmail(email) ==
    /\ Accepting
    /\ out' = Respond("GET /users/:email", NoToken, 0, email, 200, FindUsersByEmail(email))
    /\ UNCHANGED <<scholarships, users, applications, reviews, nextId, req>>

\* the first await of a handler rejects, or new ObjectId(id) in front of it throws
ThrowsAtStart(op, token, id) ==
    /\ Accepting
    /\ VerifyJWT(token) = 0
    /\ out' \in Failure(op, token, id)
    /\ UNCHANGED <<scholarships, users, applications, reviews, nextId, req>>

\* usersCollection.findOne rejects inside verifyAdmin / verifyModerator, which
\* have no try / catch
GateThrows(token, route) ==
    /\ Accepting
    /\ VerifyJWT(token) = 0
    /\ out' \in {Escaped(framework, route, token, 0) : framework \in Frameworks}
    /\ UNCHANGED <<scholarships, users, applications, reviews, nextId, req>>

\* the persistence call a request waits for rejects (or, behind a gate, the
\* handler's new ObjectId(id) throws)
ThrowsAtResume(r) ==
    /\ BagIn(r, req)
    /\ out' \in Failure(r.op, r.email, r.id)
    /\ req' = Resume(r)
    /\ UNCHANGED <<scholarships, users, applications, reviews, nextId>>

FaultyStarts ==
    {"GET /applications", "DELETE /applications/:id", "PATCH /reviews/:id",
     "DELETE /reviews/:id"}
FaultyIds == {1, MalformedId}

NextFaults ==
    \/ \E e \in Students, id \in AppIds : DeleteApplicationFind(e, id)
    \/ \E r \in BagToSet(req) : DeleteApplicationDelete(r)
    \/ \E route \in StatusRoutes :
          VerifyModeratorGate("mod", route, 1, "approved", NoFeedback)
    \/ \E r \in BagToSet(req) : PatchStatusUpdate(r)
    \/ \E e \in {"ann", "carl"} : GetUserByEmail(e)
    \/ \E op \in FaultyStarts, id \in FaultyIds : ThrowsAtStart(op, "ann", id)
    \/ \E route \in {"PATCH /applications/:id/status", "DELETE /dashboard/users/:id"} :
          GateThrows("mod", route)
    \/ \E r \in BagToSet(req) : ThrowsAtResume(r)

SpecFaults == InitAccess /\ [][NextFaults]_vars

(* ------------------------------ GET /scholarships --------------------- *)
MaxScholarships == 3

\* the two kinds of scholarship documents the model stores
ScholarshipKinds == {1, 2}
NewScholarship(id, kind) == [Catalogue[kind] EXCEPT !.id = id]

\* String.prototype.toLowerCase on the texts of the model
LowerCaseText ==
    [MIT |-> "mit", mit |-> "mit", Oxford |-> "oxford", Merit |-> "merit", Grant |-> "grant",
     Masters |-> "masters", Bachelor |-> "bachelor"]

\* the fragments of a lower-case text that the searches of the model can hit
Fragments ==
    [mit |-> {"mit", "mi", "it"}, oxford |-> {"oxford", "ox", "ford"},
     merit |-> {"merit", "it"}, grant |-> {"grant", "ant"},
     masters |-> {"masters", "mas"}, bachelor |-> {"bachelor", "bach"}]

\* { $regex: search, $options: "i" } on one field
RegexMatchesI(search, text) == LowerCaseText[search] \in Fragments[LowerCaseText[text]]

\* the query object: $or over the three text fields if search is given, the
\* category if category is given
MatchesQuery(d, query) ==
    /\ query.search # "" =>
          \/ RegexMatchesI(query.search, d.scholarshipName)
          \/ RegexMatchesI(query.search, d.universityName)
          \/ RegexMatchesI(query.search, d.degree)
    /\ query.category # "" => d.scholarshipCategory = query.category

\* find(query) in the order of the collection
FindScholarships(query) ==
    LET Hit(d) == MatchesQuery(d, query) IN SelectSeq(scholarships, Hit)

\* sortQuery: applicationFees ascending or descending, or no order asked for
Before(sort, a, b) ==
    IF sort = "fee_asc" THEN a.applicationFees < b.applicationFees
    ELSE IF sort = "fee_desc" THEN a.applicationFees > b.applicationFees
    ELSE FALSE

RECURSIVE InsertSorted(_, _, _)
InsertSorted(sort, sorted, d) ==
    IF sorted = <<>> THEN <<d>>
    ELSE IF Before(sort, d, Head(sorted)) THEN <<d>> \o sorted
    ELSE <<Head(sorted)>> \o InsertSorted(sort, Tail(sorted), d)

\* cursor.sort(sortQuery): documents with equal keys keep the order they were found in
RECURSIVE SortBy(_, _)
SortBy(sort, found) ==
    IF found = <<>> THEN <<>>
    ELSE InsertSorted(sort, SortBy(sort, SubSeq(found, 1, Len(found) - 1)), found[Len(found)])

\* the number a query string stands for, in arithmetic and in parseInt
ToNumber == ("0" :> 0) @@ ("1" :> 1) @@ ("2" :> 2)
ParseInt(text) == ToNumber[text]

\* mutant: skip counts pages, not documents
SkipOf_Pages(query) == ToNumber[query.page] - 1

\* (page - 1) * limit
SkipOf(query) == (ToNumber[query.page] - 1) * ToNumber[query.limit]

\* cursor.skip(k)
Skip(found, k) == SubSeq(found, k + 1, Len(found))

\* cursor.limit(n): the first n documents; 0 means no limit
Limit(found, n) ==
    IF n = 0 \/ n >= Len(found) THEN found ELSE SubSeq(found, 1, n)

\* the documents of a response with their positions
Indexed(rows) == {<<i, rows[i]>> : i \in DOMAIN rows}

\* GET /scholarships up to toArray(): a negative skip is refused by the driver
\* and the catch answers 500
GetScholarshipsFind(query) ==
    /\ Accepting
    /\ IF SkipOf(query) < 0
       THEN /\ out' = [Respond("GET /scholarships", NoToken, 0, "-", 500, {})
                          EXCEPT !.query = query]
            /\ UNCHANGED req
       ELSE /\ req' = Await([Request("GET /scholarships", "countDocuments", NoToken, 0,
                                     "-", "-", "-")
                               EXCEPT !.query = query,
                                      !.rows = Limit(Skip(SortBy(query.sort, FindScholarships(query)),
                                                          SkipOf(query)),
                                                     ParseInt(query.limit))])
            /\ out' = NoOut
    /\ UNCHANGED <<scholarships, users, applications, reviews, nextId>>

\* countDocuments(query), then res.send({ scholarships, total })
GetScholarshipsCount(r) ==
    /\ BagIn(r, req)
    /\ r.op = "GET /scholarships"
    /\ r.pc = "countDocuments"
    /\ out' = [Respond(r.op, NoToken, 0, "-", 200, Indexed(r.rows))
                  EXCEPT !.query = r.query, !.total = Len(FindScholarships(r.query))]
    /\ req' = Resume(r)
    /\ UNCHANGED <<scholarships, users, applications, reviews, nextId>>

\* POST /scholarships (no verifyJWT in front): insertOne(req.body)
PostScholarship(kind) ==
    /\ Accepting
    /\ Len(scholarships) < MaxScholarships
    /\ scholarships' = Append(scholarships, NewScholarship(Len(scholarships) + 1, kind))
    /\ out' = Respond("POST /scholarships", NoToken, Len(scholarships) + 1, "-", 200, {})
    /\ UNCHANGED <<users, applications, reviews, nextId, req>>

\* the queries of the model: no filter, a search or a category; with and without
\* an order; pages 0 to 2 of 0 to 2 documents
Queries ==
    {q \in [search : {"", "mit"}, category : {"", "Partial"}, sort : {"", "fee_desc"},
            page : {"0", "1", "2"}, limit : {"0", "1", "2"}] :
        q.search = "" \/ q.category = ""}

\* the collection before the first scholarship is posted
InitCatalogue ==
    /\ scholarships = <<>>
    /\ users = SeedUsers
    /\ applications = {}
    /\ reviews = {}
    /\ nextId = [user |-> 3, app |-> 1, review |-> 1]
    /\ req = EmptyBag
    /\ out = NoOut

NextCatalogue ==
    \/ \E query \in Queries : GetScholarshipsFind(query)
    \/ \E r \in BagToSet(req) : GetScholarshipsCount(r)
    \/ \E kind \in ScholarshipKinds : PostScholarship(kind)

\* one listing in flight at a time (listings do not change the collection)
NextCatalogueSeq == NextCatalogue /\ BagCardinality(req') <= 1

SpecCatalogue == InitCatalogue /\ [][NextCatalogueSeq]_vars

(* ------------------------------ GET /dashboard/analytics -------------- *)
\* applications.reduce((sum, app) => sum + (app.applicationFees || 0) + (app.serviceCharge || 0), 0)
RECURSIVE SumFees(_)
SumFees(apps) ==
    IF apps = {} THEN 0
    ELSE LET app == CHOOSE a \in apps : TRUE
         IN app.applicationFees + app.serviceCharge + SumFees(apps \ {app})

\* applicationsCollection.find({ paymentStatus: "paid" })
FindPaidApplications == {a \in applications : a.paymentStatus = "paid"}

\* after verifyAdmin: usersCollection.countDocuments()
AnalyticsCountUsers(r) ==
    /\ BagIn(r, req)
    /\ r.op = "GET /dashboard/analytics"
    /\ r.pc = "handler"
    /\ req' = Resume(r) (+) SetToBag({[r EXCEPT !.pc = "countScholarships",
                                              !.rows = <<Cardinality(users)>>]})
    /\ out' = NoOut
    /\ UNCHANGED <<scholarships, users, applications, reviews, nextId>>

\* scholarshipsCollection.countDocuments()
AnalyticsCountScholarships(r) ==
    /\ BagIn(r, req)
    /\ r.op = "GET /dashboard/analytics"
    /\ r.pc = "countScholarships"
    /\ req' = Resume(r) (+) SetToBag({[r EXCEPT !.pc = "findPaid",
                                              !.rows = Append(@, Len(scholarships))]})
    /\ out' = NoOut
    /\ UNCHANGED <<scholarships, users, applications, reviews, nextId>>

\* the paid applications, their fees added up, and the response
AnalyticsFindPaid(r) ==
    /\ BagIn(r, req)
    /\ r.op = "GET /dashboard/analytics"
    /\ r.pc = "findPaid"
    /\ out' = [Respond(r.op, r.email, 0, "-", 200, FindPaidApplications)
                  EXCEPT !.total = SumFees(FindPaidApplications), !.counts = r.rows]
    /\ req' = Resume(r)
    /\ UNCHANGED <<scholarships, users, applications, reviews, nextId>>

\* a store with one application that was marked paid outside this API (no
\* route writes paymentStatus "paid"), approved, with its fee and charge
ImportedIds == {1}
InitPayments ==
    /\ users = SeedUsers
    /\ applications =
          { [NewApplication(1, "s1", "ann") EXCEPT !.applicationStatus = "approved",
                                                   !.paymentStatus = "paid",
                                                   !.applicationFees = 10,
                                                   !.serviceCharge = 2] }
    /\ reviews = {}
    /\ nextId = [user |-> 3, app |-> 2, review |-> 1]
    /\ req = EmptyBag
    /\ out = NoOut
    /\ scholarships = Catalogue

NextPayments ==
    \/ \E e \in Students : PostApplicationFind(e, ForgedBody("s2"))
    \/ \E r \in BagToSet(req) : PostApplicationInsert(r)
    \/ \E id \in AppIds, st \in {"approved", "pending"} :
          VerifyModeratorGate("mod", "PATCH /applications/:id/status", id, st, NoFeedback)
    \/ \E r \in BagToSet(req) : PatchStatusUpdate(r)
    \/ \E e \in Students, id \in AppIds : DeleteApplicationFind(e, id)
    \/ \E r \in BagToSet(req) : DeleteApplicationDelete(r)
    \/ \E e \in {"root", "mod"} : VerifyAdminGate(e, "GET /dashboard/analytics", 0, "-")
    \/ \E r \in BagToSet(req) : AnalyticsCountUsers(r)
    \/ \E r \in BagToSet(req) : AnalyticsCountScholarships(r)
    \/ \E r \in BagToSet(req) : AnalyticsFindPaid(r)

SpecPayments == InitPayments /\ [][NextPayments]_vars

(* ====================================================================== *)
(* Claims                                                                 *)
(* ====================================================================== *)
\* the requests that reached their await in this step
Started(op) ==
    {r \in BagToSet(req') : r.op = op /\ CopiesIn(r, req') > CopiesIn(r, req)}

AppsWithId(id) == {a \in applications : a.id = id}
AppsOfPair(sch, email) ==
    {a \in applications : a.scholarshipId = sch /\ a.userEmail = email}
Answered(op, status) == out'.op = op /\ out'.status = status

\* C1: in every reachable state, interleaved POST /applications included, there is
\* at most one Application per (scholarshipId, userEmail) pair.
C1_AtMostOneApplicationPerPair ==
    \A a, b \in applications :
        (a.scholarshipId = b.scholarshipId /\ a.userEmail = b.userEmail) => a.id = b.id

\* C2: whenever an Application leaves the collection, its status is pending at the
\* moment it is deleted.
C2_DeletedOnlyWhilePending ==
    [][\A a \in applications :
          (\A b \in applications' : b.id # a.id) => a.applicationStatus = "pending"]_vars

ReviewsWithId(id) == {v \in reviews : v.id = id}
ModeratorRoutes ==
    {"PATCH /applications/:id/status", "PATCH /moderator/applications/:id",
     "GET /moderator/applications", "GET /moderator/reviews",
     "DELETE /moderator/reviews/:id"}
AdminRoutes == {"PATCH /dashboard/users/:id/role", "DELETE /dashboard/users/:id"}
OwnerReviewRoutes == {"PATCH /reviews/:id", "DELETE /reviews/:id"}

\* user?.role as the gates see it, for the caller with this email
RolesOf(email) ==
    IF \A u \in users : u.email # email THEN {"undefined"}
    ELSE {u.role : u \in {w \in users : w.email = email}}

\* a request with a token for another email than the owner's ends in 403 or 404
CrossAccountRefused(statuses) ==
    /\ (out'.op = "DELETE /applications/:id"
          /\ \E a \in AppsWithId(out'.id) : a.userEmail # out'.email) => out'.status = 403
    /\ (out'.op \in OwnerReviewRoutes
          /\ \E v \in ReviewsWithId(out'.id) : v.userEmail # out'.email) =>
             out'.status \in statuses

C4_ReviewOwnedByApplicant ==
    \A r \in reviews, a \in applications :
        a.id = r.scholarshipId => r.userEmail = a.userEmail

\* C5: POST /reviews answers 404 when the applicationId resolves to no Application,
\* 403 (inserting nothing) when the Application is not approved, and goes on to
\* insert a Review only when the Application it looked up is approved.
C5_ReviewGate ==
    [][/\ Answered("POST /reviews", 404) =>
             AppsWithId(out'.id) = {} /\ reviews' = reviews
       /\ Answered("POST /reviews", 403) =>
             /\ \E a \in AppsWithId(out'.id) : a.applicationStatus # "approved"
             /\ reviews' = reviews
       /\ \A r \in Started("POST /reviews") :
             /\ \E a \in AppsWithId(r.id) : a.applicationStatus = "approved"
             /\ reviews' = reviews
       /\ reviews' # reviews =>
             \E r \in BagToSet(req) :
                /\ r.op = "POST /reviews"
                /\ req' = req (-) SetToBag({r})
                /\ \E v \in reviews' : /\ reviews' = reviews \cup {v}
                                       /\ v \notin reviews
                                       /\ v.scholarshipId = r.id
                                       /\ v.userEmail = r.email]_vars

C5_Witness ==
    /\ out.op = "POST /reviews"
    /\ out.status = 200
    /\ \E v \in reviews : v.scholarshipId = out.id

\* C6: at most one Review references any given Application.
C6_OneReviewPerApplication ==
    \A v, w \in reviews : v.scholarshipId = w.scholarshipId => v.id = w.id

\* C7: an admin route goes on to its handler only for a caller whose role is
\* admin and a moderator route only for one whose role is moderator; every other
\* caller (student, the other role, no User record) gets 403 and nothing changes.
C7_ExactRoleGates ==
    [][/\ \A op \in AdminRoutes : \A r \in Started(op) : "admin" \in RolesOf(r.email)
       /\ \A op \in ModeratorRoutes : \A r \in Started(op) : "moderator" \in RolesOf(r.email)
       /\ (out'.op \in AdminRoutes /\ out'.status = 403) =>
             /\ \E role \in RolesOf(out'.email) : role # "admin"
             /\ UNCHANGED <<users, applications, reviews, req>>
       /\ (out'.op \in AdminRoutes /\ out'.status = 400) => "admin" \in RolesOf(out'.email)
       /\ (out'.op \in ModeratorRoutes /\ out'.status = 403) =>
             /\ \E role \in RolesOf(out'.email) : role # "moderator"
             /\ UNCHANGED <<users, applications, reviews, req>>
       /\ (users' # users /\ out'.op \in AdminRoutes) \/ applications' # applications =>
             \E r \in BagToSet(req) : r.op = out'.op /\ r.email = out'.email
                                      /\ req' = req (-) SetToBag({r})]_vars

C7_Witness ==
    /\ out.op \in ModeratorRoutes
    /\ out.status = 403
    /\ RolesOf(out.email) = {"admin"}

\* C8: a new User always has the role student whatever role the body names, and a
\* User's role changes or a User is removed only when an admin route that passed
\* verifyAdmin for a caller with the role admin performs its persistence call.
C8_UsersChangedOnlyByAdmin ==
    [][/\ \A u \in users' : (\A w \in users : w.id # u.id) => u.role = "student"
       /\ \A u \in users : u \notin users' =>
             \E r \in BagToSet(req) : /\ r.op \in AdminRoutes
                                      /\ r.id = u.id
                                      /\ req' = req (-) SetToBag({r})
       /\ \A r \in BagToSet(req') :
             r.op \in AdminRoutes /\ CopiesIn(r, req') > CopiesIn(r, req) =>
                \E u \in users : u.email = r.email /\ u.role = "admin"]_vars

C8_Witness ==
    /\ out.op = "POST /users"
    /\ out.id > 0
    /\ \E u \in users : u.id = out.id /\ u.email = out.key /\ u.role = "student"

\* C9: with requests served one at a time, a POST /applications for a pair that
\* already has an Application answers 400, inserts nothing and leaves exactly one
\* Application for the pair; only a pair without one goes on to the insert.
C9_SequentialDuplicate ==
    [][/\ Answered("POST /applications", 400) =>
             /\ applications' = applications
             /\ Cardinality(AppsOfPair(out'.key, out'.email)) = 1
       /\ \A r \in Started("POST /applications") :
             AppsOfPair(r.key, r.email) = {}]_vars

C9_Witness ==
    /\ out.op = "POST /applications"
    /\ out.status = 400
    /\ Cardinality(AppsOfPair(out.key, out.email)) = 1

\* the outcomes of DELETE /applications/:id in the order of its checks
DeleteChecksInOrder ==
    /\ Answered("DELETE /applications/:id", 404) =>
          AppsWithId(out'.id) = {} /\ applications' = applications
    /\ Answered("DELETE /applications/:id", 403) =>
          /\ \E a \in AppsWithId(out'.id) : a.userEmail # out'.email
          /\ applications' = applications
    /\ Answered("DELETE /applications/:id", 400) =>
          /\ \E a \in AppsWithId(out'.id) :
                a.userEmail = out'.email /\ a.applicationStatus # "pending"
          /\ applications' = applications
    /\ \A r \in Started("DELETE /applications/:id") :
          /\ \E a \in AppsWithId(r.id) :
                a.userEmail = r.email /\ a.applicationStatus = "pending"
          /\ applications' = applications

\* C10 as stated: the checks run in the order 404, 403, 400, failing cases leave the
\* collection unchanged, and otherwise exactly one document, the addressed one,
\* is deleted.
C10_DeleteExactlyOne ==
    [][/\ DeleteChecksInOrder
       /\ Answered("DELETE /applications/:id", 200) =>
             /\ applications' = applications \ AppsWithId(out'.id)
             /\ Cardinality(applications) - Cardinality(applications') = 1]_vars

\* What DELETE /applications/:id does keep in every interleaving: the order of
\* the checks, the unchanged collection on failure, and that deleteOne removes
\* the addressed document if it is still there and never another one.
DeleteAddressedOnly ==
    [][/\ DeleteChecksInOrder
       /\ Answered("DELETE /applications/:id", 200) =>
             /\ applications' = applications \ AppsWithId(out'.id)
             /\ out'.docs = AppsWithId(out'.id)]_vars

C12_StatusEnumerated ==
    \A a \in applications : a.applicationStatus \in {"pending", "approved", "rejected"}

\* C18: from any current status the moderator's update sets the addressed
\* Application's status to the status of the request and its feedback to the
\* text of the request ("" when the request has none); it changes no other field
\* of that Application and no other Application, and changes nothing when the
\* id matches none.
C18_SetStatusUnconditional ==
    [][out'.op \in StatusRoutes /\ out'.status = 200 =>
          \E r \in BagToSet(req) :
             /\ r.op = out'.op /\ r.id = out'.id
             /\ req' = req (-) SetToBag({r})
             /\ Cardinality(applications') = Cardinality(applications)
             /\ AppsWithId(r.id) = {} => applications' = applications
             /\ \A a \in applications :
                   IF a.id = r.id
                   THEN \E b \in applications' :
                           /\ b.id = a.id
                           /\ b.applicationStatus = r.val
                           /\ b.feedback = (IF r.fb = NoFeedback THEN "" ELSE r.fb)
                           /\ b.scholarshipId = a.scholarshipId
                           /\ b.userEmail = a.userEmail
                           /\ b.paymentStatus = a.paymentStatus
                   ELSE a \in applications']_vars

\* a status update has just taken an application out of rejected
C18_Witness ==
    /\ out.op \in StatusRoutes
    /\ out.status = 200
    /\ \E d \in out.docs : /\ d.applicationStatus = "rejected"
                           /\ d.feedback = "fix it"
                           /\ \E a \in applications : /\ a.id = d.id
                                                      /\ a.applicationStatus = "approved"
                                                      /\ a.feedback = ""

\* C13: every Application that POST /applications inserts has the status pending,
\* the payment status unpaid, an empty feedback and the email of the request's
\* token, whatever the request body names for these fields.
C13_ServerFieldsForced ==
    [][\A a \in applications' :
          AppsWithId(a.id) = {} =>
             /\ a.applicationStatus = "pending"
             /\ a.paymentStatus = "unpaid"
             /\ a.feedback = ""
             /\ \E r \in BagToSet(req) :
                   /\ r.op = "POST /applications"
                   /\ req' = req (-) SetToBag({r})
                   /\ a.userEmail = r.email
                   /\ a.scholarshipId = r.body.scholarshipId]_vars

\* ann's application for s2, sent with a body naming bob, approved and paid
C13_Witness ==
    /\ out.op = "POST /applications"
    /\ out.status = 200
    /\ out.email = "ann"
    /\ out.key = ForgedBody("s2").scholarshipId
    /\ \E a \in applications : /\ a.id = out.id
                               /\ a.userEmail = "ann"
                               /\ a.paymentStatus = "unpaid"

\* the lower-case form of every spelling of a role
LowerCased == [student |-> "student", Moderator |-> "moderator", ADMIN |-> "admin"]

RolesEnumerated == \A u \in users : u.role \in {"student", "moderator", "admin"}

\* the role change persists the lower-cased role of the request on the addressed
\* User and starts only for a role that is one of the three in some spelling
RoleChangePersistsLowerCase ==
    /\ \A r \in Started("PATCH /dashboard/users/:id/role") : r.val \in DOMAIN LowerCased
    /\ (out'.op = "PATCH /dashboard/users/:id/role" /\ users' # users) =>
          \E r \in BagToSet(req) :
             /\ r.op = out'.op /\ r.id = out'.id
             /\ req' = req (-) SetToBag({r})
             /\ users' = {IF u.id = r.id THEN [u EXCEPT !.role = LowerCased[r.val]] ELSE u :
                             u \in users}

C15_OneUserPerEmail ==
    \A u, w \in users : u.email = w.email => u.id = w.id

\* C16: every failure inside a route handler or a role gate is caught and
\* answered with a JSON { message } of status 400, 401, 403, 404 or 500: no
\* request is left without a response and no failure leaves the handler uncaught.
C16_EveryFailureAnswered ==
    /\ out.key \notin {"unhandledRejection", "defaultErrorHandler"}
    /\ out # NoOut => out.status \in {200, 400, 401, 403, 404, 500}

\* the filtered, sorted result of a query on the present collection
Listing(query) == SortBy(query.sort, FindScholarships(query))
PageOf(query) == ToNumber[query.page]
SizeOf(query) == ToNumber[query.limit]

\* the documents at the positions first .. last of a listing (as far as it goes)
Positions(listing, first, last) ==
    {<<i - first + 1, listing[i]>> : i \in {j \in DOMAIN listing : first <= j /\ j <= last}}

\* the total of a response is the number of documents matching its filter,
\* whatever its page and page size
TotalCountsMatches ==
    Answered("GET /scholarships", 200) =>
       /\ out'.total = Cardinality({i \in DOMAIN scholarships :
                                       MatchesQuery(scholarships[i], out'.query)})
       /\ \E r \in BagToSet(req) : /\ r.op = "GET /scholarships"
                                   /\ r.query = out'.query
                                   /\ req' = req (-) SetToBag({r})
                                   /\ out'.docs = Indexed(r.rows)

\* C17 as stated: GET /scholarships with page p and page size n reads the
\* documents at the positions (p-1)*n+1 .. (p-1)*n+n of the filtered, sorted
\* result (counted from 1), hence at most n, and its total is the number of all
\* documents matching the filter whatever p and n are.
C17_PageOfListing ==
    [][/\ TotalCountsMatches
       /\ out'.op = "GET /scholarships" => out'.status = 200
       /\ \A r \in Started("GET /scholarships") :
             LET p == PageOf(r.query)
                 n == SizeOf(r.query)
             IN /\ Indexed(r.rows) = Positions(Listing(r.query), (p - 1) * n + 1, (p - 1) * n + n)
                /\ Len(r.rows) <= n]_vars

\* C17 amended: as stated for p >= 1 and n >= 1; with n = 0 the driver applies no
\* limit and the response holds every document of the listing from position 1
\* on; with p = 0 and n >= 1 the skip is negative and the answer is 500.
C17_PageOfListingPositive ==
    [][/\ TotalCountsMatches
       /\ Answered("GET /scholarships", 500) =>
             PageOf(out'.query) = 0 /\ SizeOf(out'.query) >= 1
       /\ \A r \in Started("GET /scholarships") :
             LET p == PageOf(r.query)
                 n == SizeOf(r.query)
             IN IF n = 0
                THEN r.rows = Listing(r.query)
                ELSE /\ p >= 1
                     /\ Indexed(r.rows) =
                           Positions(Listing(r.query), (p - 1) * n + 1, (p - 1) * n + n)
                     /\ Len(r.rows) <= n]_vars

\* page 2 of size 1 of a listing of three documents ordered by fee: one document,
\* total 3
C17_Witness ==
    /\ out.op = "GET /scholarships"
    /\ out.status = 200
    /\ out.query.page = "2" /\ out.query.limit = "1" /\ out.query.sort = "fee_desc"
    /\ out.total = 3
    /\ Cardinality(out.docs) = 1
    /\ \E d \in out.docs : d[2] = Listing(out.query)[2] /\ d[2].id # 2

\* C19: every Review references an Application that exists and is approved.
C19_ReviewsOfApprovedApplications ==
    \A v \in reviews :
        \E a \in applications : a.id = v.scholarshipId /\ a.applicationStatus = "approved"

\* C20: no step changes the paymentStatus of an Application; an Application that
\* POST /applications inserts is unpaid, so the paid applications that GET
\* /dashboard/analytics reads hold none created through the API and these add
\* nothing to totalFeesCollected.
C20_PaymentStatusNeverWritten ==
    [][/\ \A a \in applications, b \in applications' :
             a.id = b.id => b.paymentStatus = a.paymentStatus
       /\ \A b \in applications' : AppsWithId(b.id) = {} => b.paymentStatus = "unpaid"
       /\ Answered("GET /dashboard/analytics", 200) =>
             /\ \A d \in out'.docs : d.id \in ImportedIds
             /\ out'.total = 12 * Cardinality({a \in applications : a.id \in ImportedIds})]_vars

\* the analytics have just been read while an approved application exists that
\* was submitted through the API with a body naming itself paid
C20_Witness ==
    /\ out.op = "GET /dashboard/analytics"
    /\ out.status = 200
    /\ out.total = 12
    /\ \E a \in applications : /\ a.id \notin ImportedIds
                               /\ a.applicationStatus = "approved"
                               /\ a.applicationFees = 5
                               /\ a \notin out.docs
====
